---- MODULE Spec2Model ----
(***************************************************************************)
(* Water-surface (gradually varied flow) profiles upstream of a weir.      *)
(*                                                                         *)
(* The notebooks compute with IEEE doubles.  Here every real quantity is a *)
(* fixed-point integer: depths, slopes, Froude numbers and the other       *)
(* hydraulic quantities in units of 1/Scale (1e-7), distances x, dx and L  *)
(* in units of 1/XScale (1e-6 m).  Products and quotients truncate toward  *)
(* zero and saturate at +-FMax, the largest magnitude the representation   *)
(* holds (doubles saturate to inf at their own range).  NaN is a value of  *)
(* its own, produced where numpy produces nan.                             *)
(***************************************************************************)
EXTENDS Integers, Sequences, FiniteSets, TLC

Scale == 10^7
XScale == 10^6
FMax == 2 * 10^9
NaN == 0 - 2147483647

IsNaN(v) == v = NaN

Abs(a) == IF a < 0 THEN 0 - a ELSE a

Sgn(a) == IF a > 0 THEN 1 ELSE IF a < 0 THEN 0 - 1 ELSE 0

Min(a, b) == IF a <= b THEN a ELSE b

Max(a, b) == IF a >= b THEN a ELSE b

\* |a|*|b|/K for K in {10^6, 10^7}, by 10^4 limbs so that no intermediate
\* exceeds 32 bits; saturates at FMax.
MulMag(A, B, K) ==
    LET ah == A \div 10^4
        al == A % 10^4
        bh == B \div 10^4
        bl == B % 10^4
        H  == 10^8 \div K
        M  == K \div 10^4
        c1 == ah * bl
        c2 == al * bh
    IN  IF bh > 0 /\ ah > (FMax \div H) \div bh
        THEN FMax
        ELSE Min(FMax, ah * bh * H + (c1 \div M) + (c2 \div M)
                       + (((c1 % M) + (c2 % M)) * 10^4 + al * bl) \div K)

MulK(a, b, K) == Sgn(a) * Sgn(b) * MulMag(Abs(a), Abs(b), K)

\* a * b for two 1/Scale quantities
FMul(a, b) == MulK(a, b, Scale)

\* a + b, saturating
FAdd(a, b) ==
    IF a > 0 /\ b > FMax - a THEN FMax
    ELSE IF a < 0 /\ b < (0 - FMax) - a THEN 0 - FMax
    ELSE a + b

RECURSIVE DivDigits(_, _, _)
\* the first k decimal digits of r / B, for 0 <= r < B
DivDigits(r, B, k) ==
    IF k = 0 THEN 0
    ELSE ((r * 10) \div B) * 10^(k - 1) + DivDigits((r * 10) % B, B, k - 1)

DivMag(A, B) ==
    IF B = 0 THEN (IF A > 0 THEN FMax ELSE 0)
    ELSE IF A \div B >= 200 THEN FMax
    ELSE LET r == A % B
             f == IF B > 2 * 10^8 THEN DivDigits(r \div 10, B \div 10, 7)
                  ELSE DivDigits(r, B, 7)
         IN  Min(FMax, (A \div B) * Scale + f)

\* a / b for two 1/Scale quantities (a / 0 saturates, as numpy's inf)
FDiv(a, b) == Sgn(a) * (IF b < 0 THEN 0 - 1 ELSE 1) * DivMag(Abs(a), Abs(b))

RECURSIVE SqrtSearch(_, _, _)
\* the smallest r in (lo, hi] with r*r >= a
SqrtSearch(lo, hi, a) ==
    IF hi - lo <= 1 THEN hi
    ELSE LET m == (lo + hi) \div 2
         IN  IF FMul(m, m) >= a THEN SqrtSearch(lo, m, a) ELSE SqrtSearch(m, hi, a)

\* np.sqrt(a), a ** 0.5
FSqrt(a) == IF a <= 0 THEN 0 ELSE SqrtSearch(0, 15 * Scale, a)

RECURSIVE CbrtSearch(_, _, _)
\* the smallest r in (lo, hi] with r*r*r >= a
CbrtSearch(lo, hi, a) ==
    IF hi - lo <= 1 THEN hi
    ELSE LET m == (lo + hi) \div 2
         IN  IF FMul(FMul(m, m), m) >= a THEN CbrtSearch(lo, m, a)
             ELSE CbrtSearch(m, hi, a)

\* a ** (1/3)
FCbrt(a) == IF a <= 0 THEN 0 ELSE CbrtSearch(0, 6 * Scale, a)

(***************************************************************************)
(* Program constants.                                                      *)
(***************************************************************************)
g == 98100000                  \* 9.81
Eps == 10                      \* 1e-6, the singularity guard
StartFactorPlot == 10500000    \* 1.05
StartFactor == 10100000        \* 1.01
Extent == 1000 * XScale        \* the hardcoded x > -1000 bound
BigResidual == FMax            \* 1e6, returned by manning_eq for y <= 0
CsvPath == "outputs/gvf_profile.csv"

(***************************************************************************)
(* Rectangular channel, wide-channel hydraulic radius R = y                *)
(* (weir_flow_interactive, weir_gvf_corrected_upstream, smooth backwater). *)
(***************************************************************************)
compute_critical_depth(Q, b) ==
    FCbrt(FDiv(FMul(Q, Q), FMul(g, FMul(b, b))))

Sf(y, Q, b, n) ==
    LET A == FMul(b, y)
        R == y
    IN  FDiv(FMul(FMul(n, n), FMul(Q, Q)),
             FMul(FMul(A, A), FMul(R, FCbrt(R))))

Fr(Q, b, y) == FDiv(Q, FMul(FMul(b, y), FSqrt(FMul(g, y))))

\* Python's a > b and a < b on floats: false when either side is nan
PyGt(a, b) == ~IsNaN(a) /\ ~IsNaN(b) /\ a > b

PyLt(a, b) == ~IsNaN(a) /\ ~IsNaN(b) /\ a < b

\* a classification that tests y >= y_crit first
flow_classification_ge(y, y_crit) ==
    IF ~PyLt(y, y_crit) THEN "Subcritical" ELSE "Supercritical"

flow_classification(y, y_crit) ==
    IF PyGt(y, y_crit) THEN "Subcritical"
    ELSE IF PyLt(y, y_crit) THEN "Supercritical"
    ELSE "Critical"

\* R ** (2/3)
Pow23(R) == LET c == FCbrt(R) IN FMul(c, c)

\* the lambda of compute_normal_depth in weir_flow_interactive:
\* (1/n) * b * y**(5/3) * sqrt(S0) - Q, with y**(5/3) = y * y**(2/3); the
\* factors are multiplied in an order that keeps the product in range
func_normal(y, Q, b, n, S0) ==
    FMul(FMul(FMul(FDiv(Scale, n), FSqrt(S0)), b), FMul(y, Pow23(y))) - Q

\* manning_eq of compute_normal_depth in the smooth-backwater notebook
manning_eq(y, Q, b, n, S0) ==
    IF y <= 0 THEN BigResidual
    ELSE LET A == FMul(b, y)
             R == y
         IN  FMul(FMul(FMul(FDiv(Scale, n), FSqrt(S0)), A), Pow23(R)) - Q

RECURSIVE FsolveManning(_, _, _, _, _, _)
\* scipy's fsolve on manning_eq: the root, located as the sign change of the
\* residual (negative at lo, non-negative at hi)
FsolveManning(lo, hi, Q, b, n, S0) ==
    IF hi - lo <= 1 THEN hi
    ELSE LET m == (lo + hi) \div 2
         IN  IF manning_eq(m, Q, b, n, S0) < 0
             THEN FsolveManning(m, hi, Q, b, n, S0)
             ELSE FsolveManning(lo, m, Q, b, n, S0)

RECURSIVE FsolveFunc(_, _, _, _, _, _)
FsolveFunc(lo, hi, Q, b, n, S0) ==
    IF hi - lo <= 1 THEN hi
    ELSE LET m == (lo + hi) \div 2
         IN  IF func_normal(m, Q, b, n, S0) < 0
             THEN FsolveFunc(m, hi, Q, b, n, S0)
             ELSE FsolveFunc(lo, m, Q, b, n, S0)

\* the deepest flow the root search covers (20 m)
SolveRange == 20 * Scale

\* y_guess = y_crit * 1.5, the starting iterate of both compute_normal_depth
y_guess(Q, b) == FMul(compute_critical_depth(Q, b), 15000000)

\* fsolve converges on manning_eq (ier = 1): the residual has a root.  With
\* S0 = 0 the residual is -Q at every depth, no step reduces it, and fsolve
\* warns and hands back the iterate it holds, the starting one.
ManningConverges(Q, b, n, S0) == manning_eq(SolveRange, Q, b, n, S0) >= 0

\* the same for the lambda of compute_normal_depth in weir_flow_interactive
FuncConverges(Q, b, n, S0) == func_normal(SolveRange, Q, b, n, S0) >= 0

\* compute_normal_depth of the smooth-backwater notebook: fsolve(...)[0],
\* whether or not fsolve converged
compute_normal_depth(Q, b, n, S0) ==
    IF ManningConverges(Q, b, n, S0)
    THEN FsolveManning(0, SolveRange, Q, b, n, S0)
    ELSE y_guess(Q, b)

\* compute_normal_depth of weir_flow_interactive
compute_normal_depth_plot(Q, b, n, S0) ==
    IF FuncConverges(Q, b, n, S0)
    THEN FsolveFunc(0, SolveRange, Q, b, n, S0)
    ELSE y_guess(Q, b)

(***************************************************************************)
(* Trapezoidal channel (weir_gvf_final_corrected).                         *)
(***************************************************************************)
area(b, z, y) == FAdd(FMul(b, y), FMul(z, FMul(y, y)))

perimeter(b, z, y) == FAdd(b, FMul(FMul(2 * Scale, y), FSqrt(Scale + FMul(z, z))))

top_width(b, z, y) == FAdd(b, FMul(FMul(2 * Scale, z), y))

hydraulic_radius(b, z, y) ==
    LET A == area(b, z, y)
        P == perimeter(b, z, y)
    IN  FDiv(A, P)

\* func of the trapezoidal compute_critical_depth, Q**2 * T - g * A**3,
\* divided by A**3 > 0 to stay in range: (Q/A)**2 * (T/A) - g
func_critical(y, Q, b, z) ==
    LET A == area(b, z, y)
        T == top_width(b, z, y)
        qa == FDiv(Q, A)
    IN  FMul(FMul(qa, qa), FDiv(T, A)) - g

RECURSIVE FsolveCritical(_, _, _, _, _)
\* fsolve(func, 1.0): the root, located as the sign change
\* (positive at lo, non-positive at hi)
FsolveCritical(lo, hi, Q, b, z) ==
    IF hi - lo <= 1 THEN hi
    ELSE LET m == (lo + hi) \div 2
         IN  IF func_critical(m, Q, b, z) > 0
             THEN FsolveCritical(m, hi, Q, b, z)
             ELSE FsolveCritical(lo, m, Q, b, z)

\* fsolve converges on func (ier = 1): Q**2 * T - g * A**3 has a root
CriticalConverges(Q, b, z) == func_critical(SolveRange, Q, b, z) <= 0

compute_critical_depth_z(Q, b, z) == FsolveCritical(0, SolveRange, Q, b, z)

Sf_z(Q, b, z, y, n) ==
    LET A == area(b, z, y)
        R == hydraulic_radius(b, z, y)
    IN  FDiv(FMul(FMul(n, n), FMul(Q, Q)),
             FMul(FMul(A, A), FMul(R, FCbrt(R))))

Fr_z(Q, b, z, y) ==
    LET A == area(b, z, y)
        T == top_width(b, z, y)
    IN  FDiv(Q, FMul(A, FSqrt(FDiv(FMul(g, A), T))))

(***************************************************************************)
(* Calls.  Each call of an entry point has its own arguments and locals;   *)
(* the file outputs/gvf_profile.csv is the one thing calls have in common. *)
(* steps, reason, denom and used are history variables: the number of loop *)
(* iterations begun, why the loop ended, and the denominator 1 - Fr^2 and  *)
(* the divisor of the last iteration; converged tells whether every fsolve *)
(* of the call converged; flow_type is the 'Flow Type at Start' that        *)
(* plot_profile prints.  x holds the decimal value of the    *)
(* double x and x_err the sign of the rounding error the additions         *)
(* x += dx have left in it.                                                *)
(***************************************************************************)
VARIABLES pc, args, y_crit, y_normal, x, x_err, y, x_vals, y_vals, fr_vals, ret,
          csv_file, steps, reason, denom, used, converged, flow_type

vars == <<pc, args, y_crit, y_normal, x, x_err, y, x_vals, y_vals, fr_vals, ret,
          csv_file, steps, reason, denom, used, converged, flow_type>>

Calls == {1, 2}

MaxSteps == 6

Forward == {"plot_profile", "compute_backwater_from_weir", "compute_gvf_profile"}

Variants == Forward \cup {"plot_smooth_backwater"}

Flow(Q, b, n, S0) == [Q |-> Q, b |-> b, n |-> n, S0 |-> S0]

Reach(dx, L) == [dx |-> dx, L |-> L]

MildFlow == Flow(10 * Scale, 3 * Scale, 300000, 10000)
RoughFlow == Flow(7 * Scale, 3 * Scale, 3000000, 10000)
SteepFlow == Flow(10 * Scale, 3 * Scale, 300000, 1000000)
\* a bed at the critical slope: y_normal stands 1e-7 above y_crit
CriticalFlow == Flow(10 * Scale, 3 * Scale, 299000, 86497)
\* a horizontal bed: Manning's equation has no normal depth
HorizontalFlow == Flow(10 * Scale, 3 * Scale, 300000, 0)

\* dx and L in 1e-6 m.  41298, 19023 and 1108765 are the step sizes that
\* carry MildFlow from its start depth to within 1e-6 of Fr = 1 in one step
\* of compute_backwater_from_weir, compute_gvf_profile and plot_profile.
ForwardReaches ==
    { Reach(1000000, 5000000), Reach(1000000, 3500000), Reach(250000, 1000000),
      Reach(41298, 41298), Reach(41298, 200000), Reach(19023, 50000),
      Reach(1108765, 3000000), Reach(300000, 900000),
      Reach(0, 1000000), Reach(0 - 1000000, 1000000), Reach(1000000, 0) }

BackwardReaches ==
    { Reach(250000000, 100000000), Reach(500000000, 100000000),
      Reach(250000000, 10000000), Reach(0, 100000000) }

Flows(v) ==
    IF v = "plot_profile" THEN {MildFlow, RoughFlow, HorizontalFlow}
    ELSE IF v \in Forward THEN {MildFlow, RoughFlow}
    ELSE {MildFlow, SteepFlow, HorizontalFlow, CriticalFlow}

SideSlopes(v) == IF v = "compute_gvf_profile" THEN {0, Scale} ELSE {0}

Reaches(v) == IF v \in Forward THEN ForwardReaches ELSE BackwardReaches

Args(v, f, z, r) ==
    [variant |-> v, Q |-> f.Q, b |-> f.b, z |-> z, n |-> f.n, S0 |-> f.S0,
     dx |-> r.dx, L |-> r.L]

Inputs == UNION { { Args(v, f, z, r) : f \in Flows(v), z \in SideSlopes(v), r \in Reaches(v) }
                  : v \in Variants }

\* the inputs of the concurrent calls
ConcInputs ==
    { Args(v, MildFlow, 0, r) :
        v \in Forward, r \in {Reach(41298, 41298), Reach(41298, 200000), Reach(19023, 50000)} }
    \cup { Args("plot_smooth_backwater", MildFlow, 0, r) :
              r \in {Reach(500000000, 100000000), Reach(500000000, 600000000)} }

Init ==
    /\ pc = [c \in Calls |-> "idle"]
    /\ args = [c \in Calls |-> [variant |-> "none", Q |-> 0, b |-> 0, z |-> 0,
                                n |-> 0, S0 |-> 0, dx |-> 0, L |-> 0]]
    /\ y_crit = [c \in Calls |-> 0]
    /\ y_normal = [c \in Calls |-> 0]
    /\ x = [c \in Calls |-> 0]
    /\ x_err = [c \in Calls |-> 0]
    /\ y = [c \in Calls |-> 0]
    /\ x_vals = [c \in Calls |-> << >>]
    /\ y_vals = [c \in Calls |-> << >>]
    /\ fr_vals = [c \in Calls |-> << >>]
    /\ ret = [c \in Calls |-> << >>]
    /\ csv_file = << >>
    /\ steps = [c \in Calls |-> 0]
    /\ reason = [c \in Calls |-> "none"]
    /\ denom = [c \in Calls |-> 0]
    /\ used = [c \in Calls |-> 0]
    /\ converged = [c \in Calls |-> TRUE]
    /\ flow_type = [c \in Calls |-> "none"]

\* y_crit as the entry point of a computes it
CriticalDepthOf(a) ==
    IF a.variant = "compute_gvf_profile"
    THEN compute_critical_depth_z(a.Q, a.b, a.z)
    ELSE compute_critical_depth(a.Q, a.b)

\* y_normal, for the entry points that compute it (0 for the others)
NormalDepthOf(a) ==
    IF a.variant = "plot_profile" THEN compute_normal_depth_plot(a.Q, a.b, a.n, a.S0)
    ELSE IF a.variant = "plot_smooth_backwater"
    THEN compute_normal_depth(a.Q, a.b, a.n, a.S0)
    ELSE 0

\* every fsolve of the entry point of a returns with ier = 1
SolversConverge(a) ==
    IF a.variant = "compute_gvf_profile" THEN CriticalConverges(a.Q, a.b, a.z)
    ELSE IF a.variant = "plot_profile" THEN FuncConverges(a.Q, a.b, a.n, a.S0)
    ELSE IF a.variant = "plot_smooth_backwater" THEN ManningConverges(a.Q, a.b, a.n, a.S0)
    ELSE TRUE

\* a forward start placed on the critical depth itself
StartDepthAtCritical(a, yc, yn) ==
    IF a.variant = "plot_smooth_backwater" THEN yn ELSE yc

\* the depth the loop starts from
StartDepthOf(a, yc, yn) ==
    IF a.variant = "plot_profile" THEN FMul(yc, StartFactorPlot)
    ELSE IF a.variant = "plot_smooth_backwater" THEN yn
    ELSE FMul(yc, StartFactor)

\* the call begins: the depths are solved and the loop variables initialised
\* (x_vals = [0], y_vals = [y_start], x, y = 0, y_start)
EnterWith(c, a) ==
    /\ pc[c] = "idle"
    /\ \E yc \in {CriticalDepthOf(a)} :
       \E yn \in {NormalDepthOf(a)} :
       \E ys \in {StartDepthOf(a, yc, yn)} :
           /\ args' = [args EXCEPT ![c] = a]
           /\ y_crit' = [y_crit EXCEPT ![c] = yc]
           /\ y_normal' = [y_normal EXCEPT ![c] = yn]
           /\ x' = [x EXCEPT ![c] = 0]
           /\ x_err' = [x_err EXCEPT ![c] = 0]
           /\ y' = [y EXCEPT ![c] = ys]
           /\ x_vals' = [x_vals EXCEPT ![c] = <<0>>]
           /\ y_vals' = [y_vals EXCEPT ![c] = <<ys>>]
    /\ converged' = [converged EXCEPT ![c] = SolversConverge(a)]
    /\ pc' = [pc EXCEPT ![c] = "loop"]
    /\ UNCHANGED <<fr_vals, ret, csv_file, steps, reason, denom, used, flow_type>>

Enter(c) == \E a \in Inputs : EnterWith(c, a)

EnterConc(c) == \E a \in ConcInputs : EnterWith(c, a)

(***************************************************************************)
(* The loops.  One action is one evaluation of the while condition and,    *)
(* when it holds, one pass through the loop body.                          *)
(***************************************************************************)
\* dx * 1e-6 is a multiple of 1/64 (10^6 = 2^6 * 5^6): a binary fraction
\* whose multiples the double additions x += dx produce exactly
Dyadic(dx) == dx % 15625 = 0

\* x += dx, the k-th addition: the sign of the rounding error in the sum.
\* dx and dx + dx are exact; a later sum of a dx that is no binary fraction
\* is rounded, and falls below, on or above the decimal value of k * dx
\* (0.3 + 0.3 + 0.3 = 0.8999999999999999, 0.1 + 0.1 + 0.1 = 0.30000000000000004).
Rounding(dx, k) == IF Dyadic(dx) \/ k <= 2 THEN {0} ELSE {0 - 1, 0, 1}

\* a forward loop with no distance bound
WhileForwardUnbounded(xx, e, L) == TRUE

\* while x < L:
WhileForward(xx, e, L) == xx < L \/ (xx = L /\ e < 0)

\* a backward loop that goes on while either of its two conditions holds
WhileBackwardEither(yy, y_stop, xx, e) == yy > y_stop \/ xx > 0 - Extent

\* while y > y_stop and x > -1000:
WhileBackward(yy, y_stop, xx, e) ==
    yy > y_stop /\ (xx > 0 - Extent \/ (xx = 0 - Extent /\ e > 0))

\* a march that moves x by two steps at a time
AdvanceDouble(c, sgn) ==
    /\ x' = [x EXCEPT ![c] = @ + 2 * sgn * args[c].dx]
    /\ \E e \in Rounding(args[c].dx, steps[c] + 1) : x_err' = [x_err EXCEPT ![c] = e]

\* x += dx (forward, sgn = 1) or x -= dx (backward, sgn = -1)
Advance(c, sgn) ==
    /\ x' = [x EXCEPT ![c] = @ + sgn * args[c].dx]
    /\ \E e \in Rounding(args[c].dx, steps[c] + 1) : x_err' = [x_err EXCEPT ![c] = e]

\* a depth check that accepts every depth
DepthNeverInvalid(yy) == FALSE

\* if y <= 0 or np.isnan(y):
DepthInvalid(yy) == IsNaN(yy) \/ yy <= 0

\* a guard that never finds the denominator small
NeverSingular(d) == FALSE

\* if abs(denom) < 1e-6:
NearSingular(d) == Abs(d) < Eps

\* the denominator of compute_backwater_from_weir after its guard
ClampDenom(d) == IF NearSingular(d) THEN Eps ELSE d

\* the while condition is false, or a break: the loop is left
LeaveLoop(c, why) ==
    /\ pc' = [pc EXCEPT ![c] = "exit"]
    /\ reason' = [reason EXCEPT ![c] = why]

\* x_vals.append(x); y_vals.append(y)
AppendSample(c, x2, y2) ==
    /\ x_vals' = [x_vals EXCEPT ![c] = Append(@, x2)]
    /\ y_vals' = [y_vals EXCEPT ![c] = Append(@, y2)]

\* the loop body was entered with denominator d and divided by u
BodyEntered(c, d, u) ==
    /\ steps' = [steps EXCEPT ![c] = @ + 1]
    /\ denom' = [denom EXCEPT ![c] = d]
    /\ used' = [used EXCEPT ![c] = u]

\* plot_profile: break on the guard, no depth check.  Once the depth is
\* <= 0 numpy yields nan (sqrt and ** of a negative depth, inf/inf at zero),
\* abs(nan) < 1e-6 is false and the nan is appended.
plot_profile_loop(c) ==
    /\ pc[c] = "loop"
    /\ args[c].variant = "plot_profile"
    /\ IF ~WhileForward(x[c], x_err[c], args[c].L)
       THEN /\ LeaveLoop(c, "target")
            /\ UNCHANGED <<x, x_err, y, x_vals, y_vals, fr_vals, steps, denom, used>>
       ELSE /\ steps[c] < MaxSteps
            /\ IF IsNaN(y[c]) \/ y[c] <= 0
               THEN /\ BodyEntered(c, NaN, NaN)
                    /\ Advance(c, 1)
                    /\ y' = [y EXCEPT ![c] = NaN]
                    /\ AppendSample(c, x[c] + args[c].dx, NaN)
                    /\ UNCHANGED <<pc, reason, fr_vals>>
               ELSE \E fr \in {Fr(args[c].Q, args[c].b, y[c])} :
                    \E d \in {Scale - FMul(fr, fr)} :
                        /\ BodyEntered(c, d, d)
                        /\ IF NearSingular(d)
                           THEN /\ LeaveLoop(c, "singular")
                                /\ UNCHANGED <<x, x_err, y, x_vals, y_vals, fr_vals>>
                           ELSE \E dy_dx \in {FDiv(args[c].S0 - Sf(y[c], args[c].Q, args[c].b, args[c].n), d)} :
                                \E y2 \in {FAdd(y[c], MulK(dy_dx, args[c].dx, XScale))} :
                                    /\ y' = [y EXCEPT ![c] = y2]
                                    /\ Advance(c, 1)
                                    /\ AppendSample(c, x[c] + args[c].dx, y2)
                                    /\ UNCHANGED <<pc, reason, fr_vals>>
    /\ UNCHANGED <<args, y_crit, y_normal, ret, csv_file, converged, flow_type>>

\* compute_backwater_from_weir: clamp on the guard, depth check
compute_backwater_from_weir_loop(c) ==
    /\ pc[c] = "loop"
    /\ args[c].variant = "compute_backwater_from_weir"
    /\ IF ~WhileForward(x[c], x_err[c], args[c].L)
       THEN /\ LeaveLoop(c, "target")
            /\ UNCHANGED <<x, x_err, y, x_vals, y_vals, fr_vals, steps, denom, used>>
       ELSE /\ steps[c] < MaxSteps
            /\ \E fr \in {Fr(args[c].Q, args[c].b, y[c])} :
               \E d \in {Scale - FMul(fr, fr)} :
               \E u \in {ClampDenom(d)} :
               \E dydx \in {FDiv(args[c].S0 - Sf(y[c], args[c].Q, args[c].b, args[c].n), u)} :
               \E y2 \in {FAdd(y[c], MulK(dydx, args[c].dx, XScale))} :
                   /\ BodyEntered(c, d, u)
                   /\ y' = [y EXCEPT ![c] = y2]
                   /\ Advance(c, 1)
                   /\ IF DepthInvalid(y2)
                      THEN /\ LeaveLoop(c, IF IsNaN(y2) THEN "nonfinite" ELSE "nonpositive")
                           /\ UNCHANGED <<x_vals, y_vals, fr_vals>>
                      ELSE /\ AppendSample(c, x[c] + args[c].dx, y2)
                           /\ fr_vals' = [fr_vals EXCEPT ![c] = Append(@, fr)]
                           /\ UNCHANGED <<pc, reason>>
    /\ UNCHANGED <<args, y_crit, y_normal, ret, csv_file, converged, flow_type>>

\* compute_gvf_profile: trapezoid, break on the guard, depth check
compute_gvf_profile_loop(c) ==
    /\ pc[c] = "loop"
    /\ args[c].variant = "compute_gvf_profile"
    /\ IF ~WhileForward(x[c], x_err[c], args[c].L)
       THEN /\ LeaveLoop(c, "target")
            /\ UNCHANGED <<x, x_err, y, x_vals, y_vals, steps, denom, used>>
       ELSE /\ steps[c] < MaxSteps
            /\ \E fr \in {Fr_z(args[c].Q, args[c].b, args[c].z, y[c])} :
               \E d \in {Scale - FMul(fr, fr)} :
                   /\ BodyEntered(c, d, d)
                   /\ IF NearSingular(d)
                      THEN /\ LeaveLoop(c, "singular")
                           /\ UNCHANGED <<x, x_err, y, x_vals, y_vals>>
                      ELSE \E dydx \in {FDiv(args[c].S0 - Sf_z(args[c].Q, args[c].b, args[c].z, y[c], args[c].n), d)} :
                           \E y2 \in {FAdd(y[c], MulK(dydx, args[c].dx, XScale))} :
                               /\ y' = [y EXCEPT ![c] = y2]
                               /\ Advance(c, 1)
                               /\ IF DepthInvalid(y2)
                                  THEN /\ LeaveLoop(c, IF IsNaN(y2) THEN "nonfinite" ELSE "nonpositive")
                                       /\ UNCHANGED <<x_vals, y_vals>>
                                  ELSE /\ AppendSample(c, x[c] + args[c].dx, y2)
                                       /\ UNCHANGED <<pc, reason>>
    /\ UNCHANGED <<args, y_crit, y_normal, fr_vals, ret, csv_file, converged, flow_type>>

\* compute_gvf_backwater(y_end = y_normal, y_stop = y_crit), called by
\* plot_smooth_backwater: marches x -= dx, y -= dydx * dx
compute_gvf_backwater_loop(c) ==
    /\ pc[c] = "loop"
    /\ args[c].variant = "plot_smooth_backwater"
    /\ IF ~WhileBackward(y[c], y_crit[c], x[c], x_err[c])
       THEN /\ LeaveLoop(c, IF y[c] > y_crit[c] THEN "extent" ELSE "depth")
            /\ UNCHANGED <<x, x_err, y, x_vals, y_vals, steps, denom, used>>
       ELSE /\ steps[c] < MaxSteps
            /\ \E fr \in {Fr(args[c].Q, args[c].b, y[c])} :
               \E d \in {Scale - FMul(fr, fr)} :
                   /\ BodyEntered(c, d, d)
                   /\ IF NearSingular(d)
                      THEN /\ LeaveLoop(c, "singular")
                           /\ UNCHANGED <<x, x_err, y, x_vals, y_vals>>
                      ELSE \E dydx \in {FDiv(args[c].S0 - Sf(y[c], args[c].Q, args[c].b, args[c].n), d)} :
                           \E y2 \in {FAdd(y[c], 0 - MulK(dydx, args[c].dx, XScale))} :
                               /\ y' = [y EXCEPT ![c] = y2]
                               /\ Advance(c, 0 - 1)
                               /\ IF DepthInvalid(y2)
                                  THEN /\ LeaveLoop(c, IF IsNaN(y2) THEN "nonfinite" ELSE "nonpositive")
                                       /\ UNCHANGED <<x_vals, y_vals>>
                                  ELSE /\ AppendSample(c, x[c] - args[c].dx, y2)
                                       /\ UNCHANGED <<pc, reason>>
    /\ UNCHANGED <<args, y_crit, y_normal, fr_vals, ret, csv_file, converged, flow_type>>

\* x_vals[::-1]
Reverse(s) == [i \in 1..Len(s) |-> s[Len(s) + 1 - i]]

\* a return that keeps only the samples within the reach length L of the
\* start
ReturnedWithinLength(c) ==
    LET k == Cardinality({i \in 1..Len(x_vals[c]) : Abs(x_vals[c][i]) <= args[c].L})
        xs == SubSeq(x_vals[c], 1, k)
        ys == SubSeq(y_vals[c], 1, k)
    IN  IF args[c].variant = "plot_smooth_backwater"
        THEN <<Reverse(xs), Reverse(ys), y_crit[c], y_normal[c]>>
        ELSE <<xs, ys, y_crit[c], y_normal[c]>>

\* what the call hands back after the loop: plot_profile and
\* plot_smooth_backwater plot their series with the reference depths,
\* compute_backwater_from_weir and compute_gvf_profile return a tuple
Returned(c) ==
    IF args[c].variant = "plot_profile"
    THEN <<x_vals[c], y_vals[c], y_crit[c], y_normal[c]>>
    ELSE IF args[c].variant = "compute_backwater_from_weir"
    THEN <<x_vals[c], y_vals[c], y_crit[c], fr_vals[c]>>
    ELSE IF args[c].variant = "compute_gvf_profile"
    THEN <<x_vals[c], y_vals[c], y_crit[c], CsvPath>>
    ELSE <<Reverse(x_vals[c]), Reverse(y_vals[c]), y_crit[c], y_normal[c]>>

\* after the loop: compute_gvf_profile writes the two columns to
\* outputs/gvf_profile.csv, plot_profile prints
\* flow_classification(y_start, y_crit); the call returns
Return(c) ==
    /\ pc[c] = "exit"
    /\ pc' = [pc EXCEPT ![c] = "done"]
    /\ ret' = [ret EXCEPT ![c] = Returned(c)]
    /\ csv_file' = IF args[c].variant = "compute_gvf_profile"
                   THEN <<x_vals[c], y_vals[c]>> ELSE csv_file
    /\ flow_type' = IF args[c].variant = "plot_profile"
                    THEN [flow_type EXCEPT ![c] = flow_classification(y_vals[c][1], y_crit[c])]
                    ELSE flow_type
    /\ UNCHANGED <<args, y_crit, y_normal, x, x_err, y, x_vals, y_vals, fr_vals,
                   steps, reason, denom, used, converged>>

\* one call at a time
Next ==
    \/ Enter(1)
    \/ plot_profile_loop(1)
    \/ compute_backwater_from_weir_loop(1)
    \/ compute_gvf_profile_loop(1)
    \/ compute_gvf_backwater_loop(1)
    \/ Return(1)

Spec == Init /\ [][Next]_vars

\* two calls, interleaved at loop iterations
ConcNext ==
    \E c \in Calls :
        \/ EnterConc(c)
        \/ plot_profile_loop(c)
        \/ compute_backwater_from_weir_loop(c)
        \/ compute_gvf_profile_loop(c)
        \/ compute_gvf_backwater_loop(c)
        \/ Return(c)

ConcSpec == Init /\ [][ConcNext]_vars

(***************************************************************************)
(* flow_classification on its own: a pair of depths is drawn and           *)
(* classified.                                                             *)
(***************************************************************************)
\* depths a profile holds: nan, zero, negative, and depths below, at and
\* above the critical depths of the flows
Depths ==
    { NaN, 0 - 6061583, 0, 1, 8217913, 8628808, 10423882, 10423883, 10423884,
      10945077, 19952613, FMax }

ClassInit ==
    /\ \E d \in Depths : y = [c \in Calls |-> IF c = 1 THEN d ELSE 0]
    /\ \E d \in Depths : y_crit = [c \in Calls |-> IF c = 1 THEN d ELSE 0]
    /\ pc = [c \in Calls |-> "idle"]
    /\ args = [c \in Calls |-> [variant |-> "none", Q |-> 0, b |-> 0, z |-> 0,
                                n |-> 0, S0 |-> 0, dx |-> 0, L |-> 0]]
    /\ y_normal = [c \in Calls |-> 0]
    /\ x = [c \in Calls |-> 0]
    /\ x_err = [c \in Calls |-> 0]
    /\ x_vals = [c \in Calls |-> << >>]
    /\ y_vals = [c \in Calls |-> << >>]
    /\ fr_vals = [c \in Calls |-> << >>]
    /\ ret = [c \in Calls |-> << >>]
    /\ csv_file = << >>
    /\ steps = [c \in Calls |-> 0]
    /\ reason = [c \in Calls |-> "none"]
    /\ denom = [c \in Calls |-> 0]
    /\ used = [c \in Calls |-> 0]
    /\ converged = [c \in Calls |-> TRUE]
    /\ flow_type = [c \in Calls |-> "none"]

\* flow_classification(y, y_crit) is called and returns
Classify(c) ==
    /\ pc[c] = "idle"
    /\ pc' = [pc EXCEPT ![c] = "classified"]
    /\ flow_type' = [flow_type EXCEPT ![c] = flow_classification(y[c], y_crit[c])]
    /\ UNCHANGED <<args, y_crit, y_normal, x, x_err, y, x_vals, y_vals, fr_vals, ret,
                   csv_file, steps, reason, denom, used, converged>>

ClassNext == Classify(1)

ClassSpec == ClassInit /\ [][ClassNext]_vars

(***************************************************************************)
(* Properties                                                              *)
(***************************************************************************)
\* the static preconditions: Q, b, n, dx and the reach length are positive
ValidParams(a) == a.Q > 0 /\ a.b > 0 /\ a.n > 0 /\ a.dx > 0 /\ a.L > 0

\* ceil(p / q) for q > 0, and 0 for p <= 0
CeilDiv(p, q) == IF p <= 0 THEN 0 ELSE (p + q - 1) \div q

\* C1: in every variant no sample with depth y <= 0 or NaN is ever appended
\* to the profile, and once a step has produced such a depth the loop is
\* left: no further step is taken.
C1_NoInvalidSample ==
    \A c \in Calls :
        /\ \A i \in 1..Len(y_vals[c]) : ~DepthInvalid(y_vals[c][i])
        /\ (steps[c] > 0 /\ DepthInvalid(y[c])) => pc[c] # "loop"

\* C2: the result tells why the integration stopped: two finished runs of
\* the same entry point that stopped for different reasons do not return
\* the same result.
C2_ResultTellsStopReason ==
    \A c, d \in Calls :
        (/\ pc[c] = "done" /\ pc[d] = "done"
         /\ args[c].variant = args[d].variant
         /\ ValidParams(args[c]) /\ ValidParams(args[d])
         /\ ret[c] = ret[d])
        => reason[c] = reason[d]

\* C3: a call whose static parameters are invalid fails before any depth is
\* solved and before the loop: it never gets past its entry, and a call
\* with dx <= 0 never executes a loop step.
C3_InvalidParametersRejected ==
    \A c \in Calls :
        /\ pc[c] # "idle" => ValidParams(args[c])
        /\ args[c].dx <= 0 => steps[c] = 0

\* C4: in both modes the returned samples have x strictly increasing and
\* the first returned sample is at x = 0.
C4_ReturnedXFromZero ==
    \A c \in Calls :
        (pc[c] = "done" /\ ValidParams(args[c])) =>
            /\ ret[c][1][1] = 0
            /\ \A i \in 1..(Len(ret[c][1]) - 1) : ret[c][1][i] < ret[c][1][i + 1]

\* C5 as stated: a forward integration with dx > 0 and L > 0 holds at most
\* L / dx samples.
C5_SamplesAtMostLOverDx ==
    \A c \in Calls :
        (args[c].variant \in Forward /\ args[c].dx > 0 /\ args[c].L > 0) =>
            Len(x_vals[c]) * args[c].dx <= args[c].L

\* C5, amended: a forward integration with dx > 0 and L > 0 holds at most
\* ceil(L / dx) + 2 samples, at every moment and in what it returns: the
\* sample at x = 0 and at most one for each of at most ceil(L / dx) + 1
\* steps, whether or not the loop ends on the guard or on the depth check.
C5_SampleCountBound ==
    \A c \in Calls :
        (args[c].variant \in Forward /\ args[c].dx > 0 /\ args[c].L > 0) =>
            /\ Len(x_vals[c]) <= CeilDiv(args[c].L, args[c].dx) + 2
            /\ Len(x_vals[c]) <= steps[c] + 1
            /\ pc[c] = "done" => Len(ret[c][1]) <= CeilDiv(args[c].L, args[c].dx) + 2

\* a finished forward run that returns ceil(L / dx) + 2 samples
C5_FullProfileReturned ==
    \E c \in Calls :
        /\ pc[c] = "done" /\ args[c].variant \in Forward /\ ValidParams(args[c])
        /\ Len(ret[c][1]) = CeilDiv(args[c].L, args[c].dx) + 2

\* the number of steps C6 allows a loop with dx > 0, plus margin
StepBound(a, margin) ==
    IF a.variant \in Forward THEN CeilDiv(a.L, a.dx) + margin
    ELSE CeilDiv(Extent, a.dx) + margin

\* the while condition of call c holds
LoopContinues(c) ==
    IF args[c].variant \in Forward
    THEN WhileForward(x[c], x_err[c], args[c].L)
    ELSE WhileBackward(y[c], y_crit[c], x[c], x_err[c])

\* C6 as stated: with dx > 0 a forward loop takes at most ceil(L / dx) steps
\* and the backward loop at most ceil(1000 / dx) steps.
C6_StepsAtMostCeil ==
    \A c \in Calls :
        (pc[c] # "idle" /\ args[c].dx > 0) => steps[c] <= StepBound(args[c], 0)

\* C6, amended: with dx > 0 every loop ends after at most ceil(L / dx) + 1
\* steps (forward) or ceil(1000 / dx) + 1 steps (backward), whatever the
\* depth does: the step count never exceeds that number, and a loop that has
\* taken that many steps finds its while condition false.
C6_LoopTerminates ==
    \A c \in Calls :
        (pc[c] # "idle" /\ args[c].dx > 0) =>
            /\ steps[c] <= StepBound(args[c], 1)
            /\ (pc[c] = "loop" /\ steps[c] >= StepBound(args[c], 1)) => ~LoopContinues(c)

\* a finished forward run with dx > 0 that reached its length after
\* ceil(L / dx) + 1 steps
C6_ExtraStepTaken ==
    \E c \in Calls :
        /\ pc[c] = "done" /\ args[c].variant \in Forward /\ ValidParams(args[c])
        /\ steps[c] = StepBound(args[c], 1)
        /\ reason[c] = "target"

\* C7: in compute_backwater_from_weir, when |1 - Fr^2| < 1e-6 at the depth
\* of a step, the step divides by eps = 1e-6 with the sign of 1 - Fr^2.
C7_ClampKeepsSign ==
    \A c \in Calls :
        (/\ args[c].variant = "compute_backwater_from_weir"
         /\ steps[c] > 0
         /\ NearSingular(denom[c]))
        => used[c] = (IF denom[c] < 0 THEN 0 - Eps ELSE Eps)

\* C8: on a mild slope (y_normal > y_crit) the backward integration from
\* y_normal ends because the depth has come down to y <= y_crit, not
\* because the extent x > -1000 is used up.
C8_BackwardStopsAtCritical ==
    \A c \in Calls :
        (/\ args[c].variant = "plot_smooth_backwater"
         /\ pc[c] \in {"exit", "done"}
         /\ ValidParams(args[c])
         /\ y_normal[c] > y_crit[c])
        => (reason[c] = "depth" /\ y[c] <= y_crit[c])

\* C9: on a mild slope the forward profile of plot_profile does not fall:
\* each sample that follows a depth strictly between y_crit and y_normal is
\* at least that depth.
C9_ForwardDepthNonDecreasing ==
    \A c \in Calls :
        (/\ args[c].variant = "plot_profile"
         /\ ValidParams(args[c])
         /\ y_crit[c] < y_normal[c])
        => \A i \in 1..(Len(y_vals[c]) - 1) :
               (y_crit[c] < y_vals[c][i] /\ y_vals[c][i] < y_normal[c])
               => y_vals[c][i + 1] >= y_vals[c][i]

\* C10: concurrent calls share nothing: when a call of compute_gvf_profile
\* has returned, outputs/gvf_profile.csv holds the profile of that call, as
\* it would had the call run alone.
C10_CsvHoldsOwnProfile ==
    \A c \in Calls :
        (pc[c] = "done" /\ args[c].variant = "compute_gvf_profile")
        => csv_file = <<x_vals[c], y_vals[c]>>

\* C11: when fsolve does not converge the call fails with DepthSolveError
\* before anything is computed from the iterate: a call that has got past
\* its entry, into the loop or to its return, had every solve converge.
C11_NoProfileFromFailedSolve ==
    \A c \in Calls : pc[c] # "idle" => converged[c]

\* C12 as stated: flow_classification returns 'Supercritical' exactly when
\* y < y_crit, 'Subcritical' exactly when y > y_crit and 'Critical' exactly
\* when y = y_crit, for every pair of depths (no order and no equality holds
\* of a nan).
C12_Trichotomy ==
    \A c \in Calls :
        pc[c] = "classified" =>
            /\ flow_type[c] = "Supercritical" <=> PyLt(y[c], y_crit[c])
            /\ flow_type[c] = "Subcritical" <=> PyGt(y[c], y_crit[c])
            /\ flow_type[c] = "Critical" <=>
                   (~IsNaN(y[c]) /\ ~IsNaN(y_crit[c]) /\ y[c] = y_crit[c])

\* C12, amended: for every pair of depths neither of which is nan the result
\* is 'Supercritical' exactly when y < y_crit, 'Subcritical' exactly when
\* y > y_crit and 'Critical' exactly when y = y_crit; when either is nan the
\* result is 'Critical'.
C12_TrichotomyOfNumbers ==
    \A c \in Calls :
        pc[c] = "classified" =>
            IF IsNaN(y[c]) \/ IsNaN(y_crit[c])
            THEN flow_type[c] = "Critical"
            ELSE /\ flow_type[c] = "Supercritical" <=> y[c] < y_crit[c]
                 /\ flow_type[c] = "Subcritical" <=> y[c] > y_crit[c]
                 /\ flow_type[c] = "Critical" <=> y[c] = y_crit[c]

\* a nan depth has been classified against a critical depth
C12_NanClassified ==
    \E c \in Calls :
        /\ pc[c] = "classified" /\ IsNaN(y[c]) /\ y_crit[c] > 0
        /\ flow_type[c] = "Critical"

\* C13: compute_backwater_from_weir returns exactly the initial sample
\* (0, 1.01 * y_crit) followed by one sample (k * dx, depth of step k) for
\* each step taken before the first step whose depth is <= 0 or nan: every
\* sample is a positive number, the step that ended on the depth check left
\* no sample, and the lists returned are the lists built.  When the first
\* step gives y <= 0 the call returns x_vals = [0], y_vals = [1.01 * y_crit].
C13_ProfileUpToFirstInvalidStep ==
    \A c \in Calls :
        (args[c].variant = "compute_backwater_from_weir" /\ pc[c] # "idle") =>
            LET stopped == reason[c] \in {"nonpositive", "nonfinite"}
                taken == IF stopped THEN steps[c] - 1 ELSE steps[c]
            IN  /\ Len(x_vals[c]) = 1 + taken
                /\ Len(y_vals[c]) = 1 + taken
                /\ Len(fr_vals[c]) = taken
                /\ y_vals[c][1] = FMul(y_crit[c], StartFactor)
                /\ \A i \in 1..Len(x_vals[c]) : x_vals[c][i] = (i - 1) * args[c].dx
                /\ \A i \in 2..Len(y_vals[c]) : ~IsNaN(y_vals[c][i]) /\ y_vals[c][i] > 0
                /\ stopped => (IsNaN(y[c]) \/ y[c] <= 0)
                /\ ~stopped => y[c] = y_vals[c][Len(y_vals[c])]
                /\ pc[c] = "done" =>
                       /\ ret[c][1] = x_vals[c] /\ ret[c][2] = y_vals[c]
                       /\ (stopped /\ steps[c] = 1) =>
                              (ret[c][1] = <<0>> /\ ret[c][2] = <<FMul(y_crit[c], StartFactor)>>)

\* the scenario Q = 7, b = 3, n = 0.3, S0 = 0.001, dx = 0.25 has returned:
\* its first step gave y <= 0 and the profile is the initial sample alone
C13_FirstStepInvalid ==
    \E c \in Calls :
        /\ pc[c] = "done" /\ args[c].variant = "compute_backwater_from_weir"
        /\ args[c].Q = 7 * Scale /\ args[c].n = 3000000 /\ args[c].dx = 250000
        /\ steps[c] = 1 /\ reason[c] = "nonpositive"
        /\ ret[c][1] = <<0>> /\ Len(ret[c][2]) = 1

\* the factor k of y_start = k * y_crit in the forward entry point of a
StartFactorOf(a) == IF a.variant = "plot_profile" THEN StartFactorPlot ELSE StartFactor

\* a forward call with dx > 0 and L >= 0 whose loop ended because x reached L
ReachedTarget(c) ==
    /\ args[c].variant \in Forward /\ args[c].dx > 0 /\ args[c].L >= 0
    /\ pc[c] \in {"exit", "done"} /\ reason[c] = "target"

\* C14 as stated: a forward run with dx > 0 that ends on neither the guard
\* nor the depth check starts with (0, k * y_crit), holds one sample per
\* step, each dx further, and its last sample is the first with x >= L, so
\* that L <= x_last < L + dx.
C14_LastSampleWithinDx ==
    \A c \in Calls :
        ReachedTarget(c) =>
            LET m == Len(x_vals[c])
            IN  /\ x_vals[c][1] = 0
                /\ y_vals[c][1] = FMul(y_crit[c], StartFactorOf(args[c]))
                /\ m = steps[c] + 1 /\ Len(y_vals[c]) = m
                /\ \A i \in 1..m : x_vals[c][i] = (i - 1) * args[c].dx
                /\ \A i \in 1..(m - 1) : x_vals[c][i] < args[c].L
                /\ args[c].L <= x_vals[c][m]
                /\ x_vals[c][m] < args[c].L + args[c].dx

\* C14, amended: such a run starts with (0, k * y_crit), holds one sample
\* per step, each dx further, and its last sample is the only one whose x,
\* as the loop compares it, is not below L.  L <= x_last < L + dx when the
\* sums of dx are exact; a rounded sum may stand at L and still compare
\* below it, and then one more step is taken and x_last stands at L + dx.
C14_ForwardProfileShape ==
    \A c \in Calls :
        ReachedTarget(c) =>
            LET m == Len(x_vals[c])
                inexact == ~Dyadic(args[c].dx) /\ steps[c] >= 4
            IN  /\ x_vals[c][1] = 0
                /\ y_vals[c][1] = FMul(y_crit[c], StartFactorOf(args[c]))
                /\ m = steps[c] + 1 /\ Len(y_vals[c]) = m
                /\ \A i \in 1..m : x_vals[c][i] = (i - 1) * args[c].dx
                /\ \A i \in 1..(m - 1) :
                       \/ x_vals[c][i] < args[c].L
                       \/ (x_vals[c][i] = args[c].L /\ inexact /\ i = m - 1)
                /\ args[c].L <= x_vals[c][m]
                /\ ~WhileForward(x[c], x_err[c], args[c].L) /\ x[c] = x_vals[c][m]
                /\ \/ x_vals[c][m] < args[c].L + args[c].dx
                   \/ (x_vals[c][m] = args[c].L + args[c].dx /\ inexact)

\* a forward run has returned whose sum of dx stood at L one step before
\* the last sample
C14_LastSampleAtLPlusDx ==
    \E c \in Calls :
        /\ ReachedTarget(c) /\ pc[c] = "done"
        /\ args[c].variant = "compute_backwater_from_weir"
        /\ ret[c][1][Len(ret[c][1])] = args[c].L + args[c].dx

\* the entry points whose loop breaks on the guard
AbortVariants == {"plot_profile", "compute_gvf_profile", "plot_smooth_backwater"}

\* C15: in plot_profile, compute_gvf_profile and compute_gvf_backwater,
\* when |1 - Fr^2| < 1e-6 at the depth of an iteration the loop ends there:
\* x and y are not moved, the iteration appends no sample, and the samples
\* gathered by the earlier iterations are what the call returns (the
\* backward variant in its returned order).
C15_AbortOnSingular ==
    \A c \in Calls :
        (args[c].variant \in AbortVariants /\ steps[c] > 0 /\ Abs(denom[c]) < Eps) =>
            /\ pc[c] \in {"exit", "done"}
            /\ reason[c] = "singular"
            /\ Len(x_vals[c]) = steps[c] /\ Len(y_vals[c]) = steps[c]
            /\ x[c] = x_vals[c][Len(x_vals[c])]
            /\ y[c] = y_vals[c][Len(y_vals[c])]
            /\ pc[c] = "done" =>
                   IF args[c].variant = "plot_smooth_backwater"
                   THEN ret[c][1] = Reverse(x_vals[c]) /\ ret[c][2] = Reverse(y_vals[c])
                   ELSE ret[c][1] = x_vals[c] /\ ret[c][2] = y_vals[c]

\* a call has returned after its second iteration or a later one broke on
\* the guard
C15_AbortedAfterSamples ==
    \E c \in Calls :
        /\ pc[c] = "done" /\ args[c].variant \in AbortVariants
        /\ reason[c] = "singular" /\ Abs(denom[c]) < Eps
        /\ Len(ret[c][1]) >= 2

SameButLength(c, d) ==
    /\ args[c].variant = "plot_smooth_backwater"
    /\ args[d].variant = "plot_smooth_backwater"
    /\ [args[c] EXCEPT !.L = args[d].L] = args[d]

\* C17: the reach length L given to plot_smooth_backwater has no influence
\* on the profile: two calls that differ only in L hold the same samples
\* after the same number of iterations, stop for the same reason and
\* return identical sample sequences.
C17_LengthHasNoInfluence ==
    \A c, d \in Calls :
        SameButLength(c, d) =>
            /\ (pc[c] = "done" /\ pc[d] = "done") =>
                   ret[c] = ret[d] /\ reason[c] = reason[d]
            /\ steps[c] = steps[d] =>
                   x_vals[c] = x_vals[d] /\ y_vals[c] = y_vals[d]

\* two backward calls with different L have both returned a profile that
\* runs past the shorter L
C17_TwoLengthsReturned ==
    \E c, d \in Calls :
        /\ SameButLength(c, d) /\ args[c].L < args[d].L
        /\ pc[c] = "done" /\ pc[d] = "done"
        /\ Len(ret[c][1]) >= 2
        /\ Abs(ret[c][1][1]) > args[c].L

====
